---- MODULE Spec2Model ----
(***************************************************************************)
(* Model of deepchem/utils/evaluate.py: undo_transforms,                   *)
(* compute_roc_auc_scores and the Evaluator class.                         *)
(*                                                                         *)
(* Python exceptions are modelled as values: an operator that models a     *)
(* call returns a record [exc, val]; the action that models a method       *)
(* stores the name of an escaping exception in the variable `exception`.   *)
(*                                                                         *)
(* The Prediction Table returned by model.predict is an opaque collaborator*)
(* object.  The method reads each task's three columns exactly once (task  *)
(* names are distinct), so the content of a task's columns is drawn when   *)
(* the loop reads them (lines 101-103) and recorded in pred_y_df.          *)
(***************************************************************************)
EXTENDS Integers, Sequences, FiniteSets, TLC

\* ------------------------------------------------------------------ bounds
MaxTasks == 2
MaxExamples == 2
MaxTransforms == 2
MaxVecLen == 2

\* ------------------------------------------------------------ input domains
AllTaskNames == <<"t1", "t2", "t3", "t4", "t5">>
TaskUniverse == {AllTaskNames[k] : k \in 1..MaxTasks}
Labels == {0, 1}
Weights == {0, 1}
TaskTypes == {"classification", "regression", "ranking"}
NormalizeParams == {<<1, 2>>, <<3, 4>>}
Transformers ==
  {[kind |-> "identity", mean |-> 0, std |-> 1], [kind |-> "log", mean |-> 0, std |-> 1]}
    \cup {[kind |-> "normalize", mean |-> p[1], std |-> p[2]] : p \in NormalizeParams}

SeqsUpTo(S, n) == UNION {[1..k -> S] : k \in 0..n}
Distinct(s) == \A a, b \in DOMAIN s : a # b => s[a] # s[b]
TaskNameSeqs == {s \in SeqsUpTo(TaskUniverse, MaxTasks) : Distinct(s)}
TransformerSeqs == SeqsUpTo(Transformers, MaxTransforms)
Vectors == SeqsUpTo(0..2, MaxVecLen)
Columns(n) == [y : [1..n -> Labels], y_pred : [1..n -> Labels], w : [1..n -> Weights]]

\* ------------------------------------------------------- python call results
Return(v) == [exc |-> "none", val |-> v]
Raise(e) == [exc |-> e, val |-> <<>>]

\* Names bound at module level of evaluate.py (imports and definitions).
ModuleGlobals ==
  {"print_function", "division", "unicode_literals", "np", "warnings", "log",
   "mean_squared_error", "roc_auc_score", "r2_score", "matthews_corrcoef",
   "recall_score", "accuracy_score", "pd", "__author__", "__copyright__",
   "__license__", "undo_transforms", "compute_roc_auc_scores", "Evaluator"}

\* Number of positional parameters of the module's functions.
Arity == [undo_transforms |-> 2, compute_roc_auc_scores |-> 2]

Reverse(s) == [k \in 1..Len(s) |-> s[Len(s) + 1 - k]]

\* ---------------------------------------------------------- undo_transforms
\* Line 48, one iteration of the loop: the expression reads the global name
\* `transform` (the loop variable is `transformer`), which no statement of the
\* module binds; were it bound, the attribute `unstranform` would be looked up
\* on that object, not on the loop variable.
undo_step(y, transformer) ==
  IF "transform" \in ModuleGlobals THEN Raise("AttributeError") ELSE Raise("NameError")

RECURSIVE undo_loop(_, _)
undo_loop(y, rts) ==
  IF rts = <<>> THEN Return(y)
  ELSE LET r == undo_step(y, Head(rts))
       IN IF r.exc # "none" THEN r ELSE undo_loop(r.val, Tail(rts))

\* A variant of undo_transforms whose last line returns the wrong variable.
undo_transforms_wrongvar(y, transformers) ==
  LET r == undo_loop(y, Reverse(transformers))
  IN IF r.exc # "none" THEN r ELSE Return(transformers)

undo_transforms(y, transformers) == undo_loop(y, Reverse(transformers))

\* A call undo_transforms(args...) as Python evaluates it: the arity is checked
\* before the body runs.
call_undo_transforms(args) ==
  IF Len(args) # Arity.undo_transforms THEN Raise("TypeError")
  ELSE undo_transforms(args[1], args[2])

\* Line 105 calls the name undo_transform, which no statement of the module
\* binds (the function is undo_transforms); the lookup fails before any call.
call_undo_transform(args) ==
  IF "undo_transform" \in ModuleGlobals THEN Raise("TypeError") ELSE Raise("NameError")

\* ------------------------------------------------------------ sklearn metrics
\* Results are exact: a ratio is the pair <<numerator, denominator>>.
Range(s) == {s[k] : k \in DOMAIN s}

RECURSIVE Sum(_)
Sum(s) == IF s = <<>> THEN 0 ELSE Head(s) + Sum(Tail(s))

SqDiff(a, b) == [k \in DOMAIN a |-> (a[k] - b[k]) * (a[k] - b[k])]
Squares(a) == [k \in DOMAIN a |-> a[k] * a[k]]
CountIdx(y, y_pred, yv, pv) ==
  Cardinality({k \in DOMAIN y : y[k] = yv /\ y_pred[k] = pv})

\* roc_auc_score raises ValueError unless both classes occur in y_true;
\* otherwise (concordant pairs + ties / 2) / (positives * negatives).
roc_auc_score(y, y_pred) ==
  IF Cardinality(Range(y)) # 2 THEN Raise("ValueError")
  ELSE LET pos == {k \in DOMAIN y : y[k] = 1}
           neg == {k \in DOMAIN y : y[k] # 1}
           conc == Cardinality({p \in pos \X neg : y_pred[p[1]] > y_pred[p[2]]})
           ties == Cardinality({p \in pos \X neg : y_pred[p[1]] = y_pred[p[2]]})
       IN Return(<<2 * conc + ties, 2 * Cardinality(pos) * Cardinality(neg)>>)

\* <<tp*tn - fp*fn, (tp+fp)(tp+fn)(tn+fp)(tn+fn)>>: numerator and the square
\* of the denominator.
matthews_corrcoef(y, y_pred) ==
  LET tp == CountIdx(y, y_pred, 1, 1)
      tn == CountIdx(y, y_pred, 0, 0)
      fp == CountIdx(y, y_pred, 0, 1)
      fn == CountIdx(y, y_pred, 1, 0)
  IN <<tp * tn - fp * fn, (tp + fp) * (tp + fn) * (tn + fp) * (tn + fn)>>

recall_score(y, y_pred) ==
  <<CountIdx(y, y_pred, 1, 1), CountIdx(y, y_pred, 1, 1) + CountIdx(y, y_pred, 1, 0)>>

accuracy_score(y, y_pred) ==
  <<Cardinality({k \in DOMAIN y : y[k] = y_pred[k]}), Len(y)>>

\* r2_score and mean_squared_error validate their input and raise ValueError
\* on an array without samples.  R2 = 1 - a/b is recorded as <<a, b>> with
\* a = n * SSres and b = n * sum(y^2) - sum(y)^2.
r2_score(y, y_pred) ==
  IF Len(y) = 0 THEN Raise("ValueError")
  ELSE Return(<<Len(y) * Sum(SqDiff(y, y_pred)),
                Len(y) * Sum(Squares(y)) - Sum(y) * Sum(y)>>)

\* sqrt(mean_squared_error) = sqrt(a/b) is recorded as <<a, b>>.
rms_error(y, y_pred) ==
  IF Len(y) = 0 THEN Raise("ValueError")
  ELSE Return(<<Sum(SqDiff(y, y_pred)), Len(y)>>)

NaN == <<0, 0>>
Half == <<1, 2>>

\* ---------------------------------------------------- compute_roc_auc_scores
\* Lines 61-66: [val |-> score, warned |-> whether warnings.warn was called].
compute_roc_auc_scores(y, y_pred) ==
  LET r == roc_auc_score(y, y_pred)
  IN IF r.exc = "ValueError" THEN [val |-> Half, warned |-> TRUE]
     ELSE [val |-> r.val, warned |-> FALSE]

\* ------------------------------------------------------------------- state
VARIABLES
  pc,              \* position: "new", "idle", "dispatch", "loop", "returned", "raised"
  task_type,       \* self.task_type
  task_names,      \* self.task_names
  transformers,    \* self.transformers
  predict_calls,   \* number of calls of self.model.predict
  n_rows,          \* number of examples of the table predict returned
  pred_y_df,       \* columns of the Prediction Table read so far, by task name
  csv_writes,      \* to_csv calls in order: [sink, table]
  logged,          \* messages passed to log, in order
  warned,          \* number of warnings.warn calls
  colnames,        \* local colnames
  performance_df,  \* local performance_df: sequence of [index, row]
  i,               \* number of loop iterations started
  exception,       \* exception that escaped, or "none"
  retval,          \* value returned by compute_model_performance, or <<>>
  u_pc, u_y, u_transformers, u_result   \* a direct call of undo_transforms

evaluator_vars ==
  <<pc, task_type, task_names, transformers, predict_calls, n_rows, pred_y_df,
    csv_writes, logged, warned, colnames, performance_df, i, exception, retval>>
undo_vars == <<u_pc, u_y, u_transformers, u_result>>
vars == <<evaluator_vars, undo_vars>>

NoEvaluator ==
  /\ pc = "new"
  /\ task_type = "unset"
  /\ task_names = <<>>
  /\ transformers = <<>>
  /\ predict_calls = 0
  /\ n_rows = 0
  /\ pred_y_df = <<>>
  /\ csv_writes = <<>>
  /\ logged = <<>>
  /\ warned = 0
  /\ colnames = <<>>
  /\ performance_df = <<>>
  /\ i = 0
  /\ exception = "none"
  /\ retval = <<>>

NoUndoCall ==
  /\ u_pc = "off"
  /\ u_y = <<>>
  /\ u_transformers = <<>>
  /\ u_result = Raise("none")

\* --------------------------------------------------------- Evaluator.__init__
\* Lines 71-80.  model.task_types.itervalues().next() is the model's single
\* task type; no line inspects its value.
Evaluator_init ==
  /\ pc = "new"
  /\ \E model_task_type \in TaskTypes, dataset_task_names \in TaskNameSeqs,
        trs \in TransformerSeqs :
       /\ task_names' = dataset_task_names
       /\ task_type' = model_task_type
       /\ transformers' = trs
  /\ pc' = "idle"
  /\ UNCHANGED <<predict_calls, n_rows, pred_y_df, csv_writes, logged, warned,
                 colnames, performance_df, i, exception, retval, undo_vars>>

\* ------------------------------------------ Evaluator.compute_model_performance
\* A variant that validates the task type before calling predict.
ComputePredictChecked ==
  /\ pc = "idle"
  /\ IF task_type \in {"classification", "regression"}
     THEN /\ predict_calls' = predict_calls + 1
          /\ \E n \in 0..MaxExamples : n_rows' = n
          /\ logged' = Append(logged, "Saving predictions")
          /\ csv_writes' = Append(csv_writes, [sink |-> "csv_out", table |-> "pred_y_df"])
          /\ pc' = "dispatch"
          /\ UNCHANGED exception
     ELSE /\ exception' = "ValueError"
          /\ pc' = "raised"
          /\ UNCHANGED <<predict_calls, n_rows, logged, csv_writes>>
  /\ pred_y_df' = <<>>
  /\ UNCHANGED <<task_type, task_names, transformers, warned, colnames,
                 performance_df, i, retval, undo_vars>>

\* Lines 86-88: predict, log, write the Prediction Table to csv_out.
ComputePredict ==
  /\ pc = "idle"
  /\ predict_calls' = predict_calls + 1
  /\ \E n \in 0..MaxExamples : n_rows' = n
  /\ pred_y_df' = <<>>
  /\ logged' = Append(logged, "Saving predictions")
  /\ csv_writes' = Append(csv_writes, [sink |-> "csv_out", table |-> "pred_y_df"])
  /\ pc' = "dispatch"
  /\ UNCHANGED <<task_type, task_names, transformers, warned, colnames,
                 performance_df, i, exception, retval, undo_vars>>

ClassificationColnames ==
  <<"task_name", "roc_auc_score", "matthews_corrcoef", "recall_score", "accuracy_score">>
RegressionColnames == <<"task_name", "r2_score", "rms_error">>

\* pd.DataFrame(colnames): a one-column table whose rows are the column names.
DataFrameOfNames(cols) == [k \in DOMAIN cols |-> [index |-> k - 1, row |-> <<cols[k]>>]]

\* pd.DataFrame(columns=colnames): a table without rows.
EmptyDataFrame(cols) == <<>>

\* A variant whose final branch is a plain else for regression.
ComputeDispatchNoRaise ==
  /\ pc = "dispatch"
  /\ IF task_type = "classification"
     THEN /\ colnames' = ClassificationColnames
          /\ performance_df' = EmptyDataFrame(ClassificationColnames)
     ELSE /\ colnames' = RegressionColnames
          /\ performance_df' = EmptyDataFrame(RegressionColnames)
  /\ pc' = "loop"
  /\ UNCHANGED <<task_type, task_names, transformers, predict_calls, n_rows,
                 pred_y_df, csv_writes, logged, warned, i, exception, retval, undo_vars>>

\* Lines 90-98: choose the columns by task type, or raise ValueError.
ComputeDispatch ==
  /\ pc = "dispatch"
  /\ IF task_type = "classification"
     THEN /\ colnames' = ClassificationColnames
          /\ performance_df' = EmptyDataFrame(ClassificationColnames)
          /\ pc' = "loop"
          /\ UNCHANGED exception
     ELSE IF task_type = "regression"
     THEN /\ colnames' = RegressionColnames
          /\ performance_df' = EmptyDataFrame(RegressionColnames)
          /\ pc' = "loop"
          /\ UNCHANGED exception
     ELSE /\ exception' = "ValueError"
          /\ pc' = "raised"
          /\ UNCHANGED <<colnames, performance_df>>
  /\ UNCHANGED <<task_type, task_names, transformers, predict_calls, n_rows,
                 pred_y_df, csv_writes, logged, warned, i, retval, undo_vars>>

\* y[w.nonzero()]: the entries whose weight is nonzero, in order.
RECURSIVE Mask(_, _)
Mask(v, w) ==
  IF v = <<>> THEN <<>>
  ELSE (IF Head(w) # 0 THEN <<Head(v)>> ELSE <<>>) \o Mask(Tail(v), Tail(w))

\* .astype(int) truncates toward zero; the modelled values are integers.
astype_int(v) == [k \in DOMAIN v |-> v[k]]

\* performance_df.loc[idx] = row: replaces the row labelled idx, or appends it.
loc_assign(df, idx, row) ==
  IF \E k \in DOMAIN df : df[k].index = idx
  THEN [k \in DOMAIN df |-> IF df[k].index = idx THEN [index |-> idx, row |-> row] ELSE df[k]]
  ELSE Append(df, [index |-> idx, row |-> row])

Outcome(e, df, wn) == [exc |-> e, df |-> df, warned |-> wn]

\* Lines 107-116.
classification_branch(idx, task_name, y0, y_pred0, w, df, wn) ==
  LET y == astype_int(Mask(y0, w))
      y_pred == astype_int(Mask(y_pred0, w))
  IN IF Len(y) = 0 THEN Outcome("none", df, wn)
     ELSE LET auc == compute_roc_auc_scores(y, y_pred)
              mcc == matthews_corrcoef(y, y_pred)
              recall == recall_score(y, y_pred)
              accuracy == accuracy_score(y, y_pred)
          IN Outcome("none",
                     loc_assign(df, idx, <<task_name, auc.val, mcc, recall, accuracy>>),
                     IF auc.warned THEN wn + 1 ELSE wn)

\* Lines 118-125: no mask is applied; a ValueError of either metric sets both.
regression_branch(idx, task_name, y, y_pred, w, df, wn) ==
  LET r2 == r2_score(y, y_pred)
      rms == rms_error(y, y_pred)
      failed == r2.exc = "ValueError" \/ rms.exc = "ValueError"
      r2s == IF failed THEN NaN ELSE r2.val
      rmsv == IF failed THEN NaN ELSE rms.val
  IN Outcome("none", loc_assign(df, idx, <<task_name, r2s, rmsv>>), wn)

\* Lines 101-125, one iteration of the loop for the task at index idx whose
\* columns are col.  Line 104 calls undo_transforms with one argument and
\* line 105 calls undo_transform.
task_body(idx, task_name, col, ttype, df, wn) ==
  LET u1 == call_undo_transforms(<<col.y>>)
  IN IF u1.exc # "none" THEN Outcome(u1.exc, df, wn)
     ELSE LET u2 == call_undo_transform(<<col.y_pred>>)
          IN IF u2.exc # "none" THEN Outcome(u2.exc, df, wn)
             ELSE IF ttype = "classification"
                  THEN classification_branch(idx, task_name, u1.val, u2.val, col.w, df, wn)
                  ELSE IF ttype = "regression"
                  THEN regression_branch(idx, task_name, u1.val, u2.val, col.w, df, wn)
                  ELSE Outcome("none", df, wn)

ComputeTask ==
  /\ pc = "loop"
  /\ i < Len(task_names)
  /\ \E col \in Columns(n_rows) :
       LET task_name == task_names[i + 1]
           r == task_body(i, task_name, col, task_type, performance_df, warned)
       IN /\ pred_y_df' = (task_name :> col) @@ pred_y_df
          /\ performance_df' = r.df
          /\ warned' = r.warned
          /\ exception' = r.exc
          /\ pc' = IF r.exc = "none" THEN "loop" ELSE "raised"
  /\ i' = i + 1
  /\ UNCHANGED <<task_type, task_names, transformers, predict_calls, n_rows,
                 csv_writes, logged, colnames, retval, undo_vars>>

\* Lines 127-130: log, write the Performance Table to stats_file, return.
ComputeSave ==
  /\ pc = "loop"
  /\ i = Len(task_names)
  /\ logged' = Append(logged, "Saving model performance scores")
  /\ csv_writes' = Append(csv_writes, [sink |-> "stats_file", table |-> "performance_df"])
  /\ retval' = <<"pred_y_df", performance_df>>
  /\ pc' = "returned"
  /\ UNCHANGED <<task_type, task_names, transformers, predict_calls, n_rows,
                 pred_y_df, warned, colnames, performance_df, i, exception, undo_vars>>

\* ------------------------------------------------------------ specifications
\* The initial state precedes the construction of the Evaluator, so that
\* __init__ and what it accepts are part of the behaviour.
Init == NoEvaluator /\ NoUndoCall

Next ==
  \/ Evaluator_init
  \/ ComputePredict
  \/ ComputeDispatch
  \/ ComputeTask
  \/ ComputeSave

Spec == Init /\ [][Next]_vars

\* A direct call undo_transforms(y, transformers) on inputs drawn from the
\* bounded sets.
InitUndo ==
  /\ NoEvaluator
  /\ u_pc = "call"
  /\ u_y \in Vectors
  /\ u_transformers \in TransformerSeqs
  /\ u_result = Raise("none")

UndoCall ==
  /\ u_pc = "call"
  /\ u_result' = call_undo_transforms(<<u_y, u_transformers>>)
  /\ u_pc' = "done"
  /\ UNCHANGED <<u_y, u_transformers, evaluator_vars>>

NextUndo == UndoCall

SpecUndo == InitUndo /\ [][NextUndo]_vars

\* ------------------------------------------------------------------ claims
Recognized == {"classification", "regression"}
PredictionsWrite == [sink |-> "csv_out", table |-> "pred_y_df"]
StatsWrite == [sink |-> "stats_file", table |-> "performance_df"]
Finished == pc \in {"returned", "raised"}
RowNames(df) == [k \in DOMAIN df |-> df[k].row[1]]
RowsOf(df, t) == {df[k].row : k \in {j \in DOMAIN df : df[j].row[1] = t}}
TasksRead == DOMAIN pred_y_df

RECURSIVE IsSubsequence(_, _)
IsSubsequence(a, b) ==
  IF a = <<>> THEN TRUE
  ELSE IF b = <<>> THEN FALSE
  ELSE IF Head(a) = Head(b) THEN IsSubsequence(Tail(a), Tail(b))
  ELSE IsSubsequence(a, Tail(b))

\* C1: for a classification or regression Evaluator, a finished call of
\* compute_model_performance has returned the (Prediction Table, Performance
\* Table) pair after going through every task, with exactly two external
\* writes: the predictions first, the stats last, and no exception.
C1_RunsToCompletion ==
  (task_type \in Recognized /\ Finished) =>
    /\ pc = "returned"
    /\ exception = "none"
    /\ i = Len(task_names)
    /\ csv_writes = <<PredictionsWrite, StatsWrite>>
    /\ retval = <<"pred_y_df", performance_df>>

C3_ZeroWeightTaskSkipped ==
  \A t \in TasksRead :
    (n_rows > 0 /\ \A k \in 1..n_rows : pred_y_df[t].w[k] = 0) =>
      /\ exception = "none"
      /\ RowsOf(performance_df, t) = {}

\* C4 as stated: no Evaluator with a task type other than classification or
\* regression exists, and no predict call or sink write happens for one.
C4_RejectedAtConstruction ==
  /\ task_type \in Recognized \cup {"unset"}
  /\ (predict_calls > 0 \/ csv_writes # <<>>) => task_type \in Recognized

\* C4 amended: constructing an Evaluator with an unrecognized task type raises
\* nothing; compute_model_performance raises the ValueError once it reaches
\* the task-type dispatch, so such an Evaluator never starts a task, never
\* writes the stats sink and never returns.
C4_RejectedAtDispatch ==
  (task_type \notin Recognized \cup {"unset"}) =>
    /\ pc \in {"idle", "dispatch", "raised"}
    /\ (pc \in {"idle", "dispatch"} => exception = "none")
    /\ (pc = "raised" => exception = "ValueError")
    /\ i = 0
    /\ StatsWrite \notin Range(csv_writes)
    /\ retval = <<>>

C4_Witness == task_type = "ranking" /\ pc = "raised" /\ exception = "ValueError"

\* C5: undo_transforms(y, [t1, ..., tn]) with n > 0 returns y with tn undone
\* first and t1 last, where undoing identity changes nothing, undoing log is
\* the exponential (base 2 stands for e) and undoing normalize is
\* y * std + mean.
C5_UndoneInReverse ==
  LET untransform(t, y) ==
        [k \in DOMAIN y |->
           IF t.kind = "log" THEN 2 ^ y[k]
           ELSE IF t.kind = "normalize" THEN y[k] * t.std + t.mean
           ELSE y[k]]
      undone[n \in 0..Len(u_transformers)] ==
        IF n = 0 THEN u_y
        ELSE untransform(u_transformers[Len(u_transformers) + 1 - n], undone[n - 1])
  IN (u_pc = "done" /\ u_transformers # <<>>) =>
       /\ u_result.exc = "none"
       /\ u_result.val = undone[Len(u_transformers)]

\* C6: undo_transforms(v, []) returns v and raises nothing.
C6_EmptyIsIdentity ==
  (u_pc = "done" /\ u_transformers = <<>>) => u_result = Return(u_y)

C6_Witness == u_pc = "done" /\ u_transformers = <<>> /\ Len(u_y) = MaxVecLen

\* C7: a classification task whose masked labels are all of one class gets
\* a row with ROC-AUC 0.5, a warning is emitted and nothing is raised.
C7_DegenerateAucIsHalf ==
  \A t \in TasksRead :
    LET y == Mask(pred_y_df[t].y, pred_y_df[t].w)
    IN (task_type = "classification" /\ Cardinality(Range(y)) = 1) =>
         /\ exception = "none"
         /\ warned > 0
         /\ \E r \in RowsOf(performance_df, t) : r[2] = Half

\* C8: a regression task on which R2 or RMSE fails gets a row whose
\* r2_score and rms_error are both not-a-number, and nothing is raised.
C8_BothNaN ==
  \A t \in TasksRead :
    LET y == pred_y_df[t].y
        y_pred == pred_y_df[t].y_pred
    IN (/\ task_type = "regression"
        /\ (r2_score(y, y_pred).exc # "none" \/ rms_error(y, y_pred).exc # "none")) =>
         /\ exception = "none"
         /\ \E r \in RowsOf(performance_df, t) : r[2] = NaN /\ r[3] = NaN

\* C9: for both task types the metrics of a task are computed over the
\* examples with nonzero weight only: the task's row is the one computed
\* from the masked label and prediction vectors.
C9_MetricsOverMasked ==
  \A t \in TasksRead :
    LET y == Mask(pred_y_df[t].y, pred_y_df[t].w)
        y_pred == Mask(pred_y_df[t].y_pred, pred_y_df[t].w)
    IN Len(y) > 0 =>
         /\ exception = "none"
         /\ RowsOf(performance_df, t) =
              IF task_type = "classification"
              THEN {<<t, compute_roc_auc_scores(y, y_pred).val, matthews_corrcoef(y, y_pred),
                      recall_score(y, y_pred), accuracy_score(y, y_pred)>>}
              ELSE {<<t, r2_score(y, y_pred).val, rms_error(y, y_pred).val>>}

\* C10: on an Evaluator with an unrecognized task type a call of
\* compute_model_performance ends with a ValueError, raised after exactly
\* one predict call and the write of the Prediction Table, before any task
\* is read and without a write to the stats sink.
C10_ValueErrorAfterPredict ==
  /\ (task_type \notin Recognized \cup {"unset"} /\ Finished) => exception = "ValueError"
  /\ exception = "ValueError" =>
       /\ task_type \notin Recognized
       /\ predict_calls = 1
       /\ csv_writes = <<PredictionsWrite>>
       /\ TasksRead = {}
       /\ performance_df = <<>>

C10_Witness == exception = "ValueError" /\ predict_calls = 1 /\ Len(logged) = 1

====
